---- MODULE Spec2Model ----
(***************************************************************************)
(* Model of the Proxy-Cheap integration (custom_components/proxy_cheap):   *)
(* the API client's error mapping, the coordinator's poll cycle            *)
(* (_async_update_data), the normalizer (_normalize_proxy_data,            *)
(* _filter_sensitive_data) and the write-operation service handlers.       *)
(*                                                                         *)
(* Python values are tagged records so that values of different Python     *)
(* types can be compared: None, int, str, list, dict.  A dict is a TLA+    *)
(* function whose DOMAIN is the set of keys that are present.              *)
(***************************************************************************)
EXTENDS Integers, Sequences, FiniteSets, TLC

VARIABLES
    call,             \* client input: the operation and what the HTTP request meets
    reply,            \* what the client operation did on `call`
    raw,              \* normalizer input: one raw proxy record (a dict)
    normalized,       \* what _normalize_proxy_data did with `raw`
    proxy_names,      \* coordinator.proxy_names (local name overrides)
    data,             \* coordinator.data: the published snapshot
    pc,               \* position of the poll cycle in _async_update_data
    balance_data,     \* local of _async_update_data
    proxies_data,     \* local of _async_update_data
    proxies,          \* local of _async_update_data (dict being built)
    idx,              \* position of the for loop over proxies_data
    client_error,     \* exception a client call raised in the current cycle
    last_update,      \* how the last poll cycle ended, as the host sees it
    wpc,              \* position of the write-operation service handler
    wop,              \* the write operation being handled
    w_call,           \* outcome of the handler's client call
    w_refreshed,      \* handler has called coordinator.async_request_refresh
    w_result,         \* how the handler ended, as its caller sees it
    refresh_requests, \* number of async_request_refresh calls issued
    _known_proxies,          \* coordinator._known_proxies (sensor platform)
    _known_binary_proxies,   \* coordinator._known_binary_proxies
    sensor_added,            \* per proxy id: times its sensors were handed to async_add_entities
    binary_added,            \* the same for its binary sensors
    listeners_due,           \* coordinator listeners still to be called for this update
    snapshots                \* number of updates published to the platforms

clientVars == <<call, reply>>
normVars == <<raw, normalized>>
cycleVars == <<data, pc, balance_data, proxies_data, proxies, idx, client_error,
               last_update>>
serviceVars == <<wpc, wop, w_call, w_refreshed, w_result, refresh_requests>>
platformVars == <<_known_proxies, _known_binary_proxies, sensor_added, binary_added,
                  listeners_due, snapshots>>
vars == <<call, reply, raw, normalized, proxy_names, data, pc, balance_data, proxies_data,
          proxies, idx, client_error, last_update, wpc, wop, w_call, w_refreshed,
          w_result, refresh_requests, _known_proxies, _known_binary_proxies,
          sensor_added, binary_added, listeners_due, snapshots>>

----------------------------------------------------------------------------
(* Bounds *)

MaxProxies == 2      \* longest list-proxies response
MaxRequests == 2     \* refresh requests per behaviour

----------------------------------------------------------------------------
(* Python values *)

None == [null |-> TRUE]
PyInt(n) == [int |-> n]
PyStr(s) == [str |-> s]
PyList(l) == [list |-> l]
PyDict(d) == [dict |-> d]
PyBool(b) == [bool |-> b]

EmptyDict == <<>>

IsNone(v) == v = None
IsInt(v) == DOMAIN v = {"int"}
IsStr(v) == DOMAIN v = {"str"}
IsList(v) == DOMAIN v = {"list"}
IsDict(v) == DOMAIN v = {"dict"}
IsBool(v) == DOMAIN v = {"bool"}

\* Python truth value of a value
Truthy(v) ==
    CASE IsNone(v) -> FALSE
      [] IsInt(v) -> v.int # 0
      [] IsStr(v) -> v.str # ""
      [] IsList(v) -> Len(v.list) > 0
      [] IsDict(v) -> DOMAIN v.dict # {}
      [] IsBool(v) -> v.bool

\* a or b
Or(a, b) == IF Truthy(a) THEN a ELSE b

\* d.get(k, default) on a dict d (the TLA+ function)
Get(d, k, default) == IF k \in DOMAIN d THEN d[k] ELSE default

\* d.get(k)
Get1(d, k) == Get(d, k, None)

UpperLetters == "ABCDEFGHIJKLMNOPQRSTUVWXYZ"
LowerLetters == "abcdefghijklmnopqrstuvwxyz"

LetterIndex(letters, c) ==
    IF \E i \in 1..Len(letters) : SubSeq(letters, i, i) = c
    THEN CHOOSE i \in 1..Len(letters) : SubSeq(letters, i, i) = c
    ELSE 0

LowerChar(c) ==
    LET i == LetterIndex(UpperLetters, c)
    IN IF i = 0 THEN c ELSE SubSeq(LowerLetters, i, i)

UpperChar(c) ==
    LET i == LetterIndex(LowerLetters, c)
    IN IF i = 0 THEN c ELSE SubSeq(UpperLetters, i, i)

RECURSIVE lower(_)
\* str.lower()
lower(s) == IF s = "" THEN "" ELSE LowerChar(Head(s)) \o lower(Tail(s))

RECURSIVE upper(_)
\* str.upper()
upper(s) == IF s = "" THEN "" ELSE UpperChar(Head(s)) \o upper(Tail(s))

\* sub in s
Contains(s, sub) ==
    \E i \in 1..(Len(s) - Len(sub) + 1) : SubSeq(s, i, i + Len(sub) - 1) = sub

\* s.find(sub) + 1: the position of the first occurrence, 0 when none
Find(s, sub) ==
    LET found == {i \in 1..(Len(s) - Len(sub) + 1) :
                     SubSeq(s, i, i + Len(sub) - 1) = sub}
    IN IF found = {} THEN 0 ELSE CHOOSE i \in found : \A j \in found : i <= j

RECURSIVE Split(_, _)
\* s.split(sep)
Split(s, sep) ==
    LET i == Find(s, sep)
    IN IF i = 0 THEN <<s>>
       ELSE <<SubSeq(s, 1, i - 1)>> \o Split(SubSeq(s, i + Len(sep), Len(s)), sep)

\* s.split(sep, 1)
SplitOnce(s, sep) ==
    LET i == Find(s, sep)
    IN IF i = 0 THEN <<s>>
       ELSE <<SubSeq(s, 1, i - 1), SubSeq(s, i + Len(sep), Len(s))>>

RECURSIVE Join(_, _)
\* sep.join(parts)
Join(sep, parts) ==
    IF parts = <<>> THEN ""
    ELSE IF Len(parts) = 1 THEN parts[1]
    ELSE parts[1] \o sep \o Join(sep, Tail(parts))

Digits == "0123456789"

RECURSIVE NatToStr(_)
NatToStr(n) ==
    IF n < 10 THEN SubSeq(Digits, n + 1, n + 1)
    ELSE NatToStr(n \div 10) \o SubSeq(Digits, (n % 10) + 1, (n % 10) + 1)

\* The string is a non-empty run of decimal digits
IsDigits(s) ==
    /\ s # ""
    /\ \A i \in 1..Len(s) : LetterIndex(Digits, SubSeq(s, i, i)) # 0

RECURSIVE StrToNat(_)
StrToNat(s) ==
    IF s = "" THEN 0
    ELSE StrToNat(SubSeq(s, 1, Len(s) - 1)) * 10
         + (LetterIndex(Digits, SubSeq(s, Len(s), Len(s))) - 1)

\* str(v) for the values a proxy id can take
ToStr(v) ==
    CASE IsStr(v) -> v.str
      [] IsInt(v) -> IF v.int < 0 THEN "-" \o NatToStr(-v.int) ELSE NatToStr(v.int)
      [] IsNone(v) -> "None"
      [] IsBool(v) -> IF v.bool THEN "True" ELSE "False"
      [] OTHER -> "<object>"

----------------------------------------------------------------------------
(* Normalizer: coordinator.py, _filter_sensitive_data and                  *)
(* _normalize_proxy_data                                                   *)

IsSensitiveKey(k) == Contains(lower(k), "password") \/ Contains(lower(k), "secret")

\* The dict comprehension of lines 172-175, applied to a nested dict
FilterNested(value) ==
    [k \in {k2 \in DOMAIN value : ~IsSensitiveKey(k2)} |-> value[k]]

\* A top-level key is kept when its value is a dict (line 170), or when the
\* key itself is not sensitive (line 176)
KeepsTopLevelKey(d, key) == IsDict(d[key]) \/ ~IsSensitiveKey(key)

_filter_sensitive_data(d) ==
    [key \in {k \in DOMAIN d : KeepsTopLevelKey(d, k)} |->
        IF IsDict(d[key]) THEN PyDict(FilterNested(d[key].dict)) ELSE d[key]]

\* proxy.get(name, {}) or {}  (lines 73-76); the result is the value the
\* later .get calls are made on
SubObject(proxy, name) == Or(Get(proxy, name, PyDict(EmptyDict)), PyDict(EmptyDict))

\* proxy.get("proxyType", "")  (line 79, before .upper())
RawProxyType(proxy) == Get(proxy, "proxyType", PyStr(""))

\* Lines 80-92, given the upper-cased proxy type and the connection dict
SelectPort(proxy_type, connection) ==
    CASE proxy_type = "HTTP" -> Get1(connection, "httpPort")
      [] proxy_type = "HTTPS" -> Get1(connection, "httpsPort")
      [] proxy_type = "SOCKS5" -> Get1(connection, "socks5Port")
      [] OTHER -> Or(Get1(connection, "httpPort"),
                     Or(Get1(connection, "httpsPort"), Get1(connection, "socks5Port")))

\* BandwidthRemaining with the subtraction skipped when `used` is null
BandwidthRemaining_SkipsNullUsed(bandwidth_total, bandwidth_used) ==
    IF bandwidth_total # None /\ bandwidth_used # None
    THEN PyInt(bandwidth_total.int - bandwidth_used.int)
    ELSE None

\* BandwidthRemaining with the subtraction left out
BandwidthRemaining_ReturnsTotal(bandwidth_total, bandwidth_used) ==
    IF bandwidth_total # None THEN bandwidth_total ELSE None

\* Lines 101-104
BandwidthRemaining(bandwidth_total, bandwidth_used) ==
    IF bandwidth_total # None
    THEN LET used_for_calc == IF bandwidth_used # None THEN bandwidth_used ELSE PyInt(0)
         IN PyInt(bandwidth_total.int - used_for_calc.int)
    ELSE None

\* Line 107
BandwidthUnlimited(bandwidth_total) == PyBool(bandwidth_total = None)

\* Lines 110-111
\* NormalizeStatus without the isinstance test: str() of whatever is there
NormalizeStatus_StrOfAnything(proxy) ==
    LET raw_status == Get(proxy, "status", PyStr("unknown"))
    IN PyStr(lower(ToStr(raw_status)))

NormalizeStatus(proxy) ==
    LET raw_status == Get(proxy, "status", PyStr("unknown"))
    IN IF IsStr(raw_status) THEN PyStr(lower(raw_status.str)) ELSE PyStr("unknown")

\* Lines 114-124
CustomName(names, proxy, metadata) ==
    LET proxy_id == Get1(proxy, "id")
    IN Or(Get1(names, proxy_id),
       Or(Get1(names, PyStr(ToStr(proxy_id))),
       Or(Get1(proxy, "name"),
       Or(Get1(proxy, "label"),
       Or(Get1(proxy, "alias"),
       Or(Get1(proxy, "displayName"),
       Or(Get1(metadata, "name"), Get1(metadata, "label"))))))))

\* AuthenticationType with the two tests in the other order
AuthenticationType_UsernameFirst(authentication) ==
    IF Truthy(Get1(authentication, "username")) THEN PyStr("USERNAME_PASSWORD")
    ELSE IF Truthy(Get1(authentication, "whitelistedIps")) THEN PyStr("IP_WHITELIST")
    ELSE None

\* Lines 146-150
AuthenticationType(authentication) ==
    IF Truthy(Get1(authentication, "whitelistedIps")) THEN PyStr("IP_WHITELIST")
    ELSE IF Truthy(Get1(authentication, "username")) THEN PyStr("USERNAME_PASSWORD")
    ELSE None

\* The exception _normalize_proxy_data raises on this record, "none" if it
\* returns.  In the order of evaluation: .upper() on a non-string (line 79),
\* .get on a sub-object that is not a dict (lines 81-96, 122-160), the
\* subtraction of line 104 on non-numbers, a lookup with an unhashable id
\* (line 116).
NormalizeRaises(names, proxy) ==
    LET notDict(name) == ~IsDict(SubObject(proxy, name))
        total == IF notDict("bandwidth") THEN None
                 ELSE Get1(SubObject(proxy, "bandwidth").dict, "total")
        used == IF notDict("bandwidth") THEN None
                ELSE Get1(SubObject(proxy, "bandwidth").dict, "used")
        proxy_id == Get1(proxy, "id")
    IN IF ~IsStr(RawProxyType(proxy)) THEN "AttributeError"
       ELSE IF notDict("connection") \/ notDict("bandwidth") THEN "AttributeError"
       ELSE IF total # None /\ (~IsInt(total) \/ (used # None /\ ~IsInt(used)))
            THEN "TypeError"
       ELSE IF IsList(proxy_id) \/ IsDict(proxy_id) THEN "TypeError"
       ELSE IF notDict("authentication") \/ notDict("metadata") THEN "AttributeError"
       ELSE "none"

\* The dict returned at lines 126-164
NormalizedRecord(names, proxy) ==
    LET connection == SubObject(proxy, "connection").dict
        authentication == SubObject(proxy, "authentication").dict
        bandwidth == SubObject(proxy, "bandwidth").dict
        metadata == SubObject(proxy, "metadata").dict
        proxy_type == upper(RawProxyType(proxy).str)
        bandwidth_total == Get1(bandwidth, "total")
        bandwidth_used == Get1(bandwidth, "used")
    IN ("_raw" :> PyDict(_filter_sensitive_data(proxy))) @@
       [id |-> Get1(proxy, "id"),
        name |-> CustomName(names, proxy, metadata),
        ip_address |-> Or(Get1(connection, "publicIp"), Get1(connection, "connectIp")),
        port |-> SelectPort(proxy_type, connection),
        username |-> Get1(authentication, "username"),
        protocol |-> Get1(proxy, "proxyType"),
        network_type |-> Get1(proxy, "networkType"),
        country |-> Get1(proxy, "countryCode"),
        region |-> Get1(proxy, "region"),
        city |-> Get1(proxy, "city"),
        bandwidth_total |-> bandwidth_total,
        bandwidth_used |-> bandwidth_used,
        bandwidth_remaining |-> BandwidthRemaining(bandwidth_total, bandwidth_used),
        bandwidth_unlimited |-> BandwidthUnlimited(bandwidth_total),
        expiry_date |-> Get1(proxy, "expiresAt"),
        auto_extend_enabled |-> Get1(proxy, "autoExtendEnabled"),
        authentication_type |-> AuthenticationType(authentication),
        whitelisted_ips |-> Get(authentication, "whitelistedIps", PyList(<<>>)),
        status |-> NormalizeStatus(proxy),
        created_at |-> Get1(proxy, "createdAt"),
        ip_version |-> Get1(connection, "ipVersion"),
        connect_ip |-> Get1(connection, "connectIp"),
        http_port |-> Get1(connection, "httpPort"),
        https_port |-> Get1(connection, "httpsPort"),
        socks5_port |-> Get1(connection, "socks5Port"),
        isp_name |-> Get1(metadata, "ispName"),
        order_id |-> Get1(metadata, "orderId"),
        routes |-> Get(proxy, "routes", PyList(<<>>))]

\* _normalize_proxy_data: [ok |-> the record] or [raised |-> the exception]
_normalize_proxy_data(names, proxy) ==
    LET exc == NormalizeRaises(names, proxy)
    IN IF exc = "none" THEN [ok |-> NormalizedRecord(names, proxy)]
       ELSE [raised |-> exc]

\* The key set of the dict returned at lines 126-164
NormalizedKeys ==
    {"id", "name", "ip_address", "port", "username", "protocol", "network_type",
     "country", "region", "city", "bandwidth_total", "bandwidth_used",
     "bandwidth_remaining", "bandwidth_unlimited", "expiry_date",
     "auto_extend_enabled", "authentication_type", "whitelisted_ips", "status",
     "created_at", "ip_version", "connect_ip", "http_port", "https_port",
     "socks5_port", "isp_name", "order_id", "routes", "_raw"}

----------------------------------------------------------------------------
(* Raw proxy records the vendor may send.  A field of a record is absent,  *)
(* null, or has a value; Absent marks a key that is left out of the dict.  *)

Absent == [absent |-> TRUE]

MkDict(f) == [k \in {k2 \in DOMAIN f : f[k2] # Absent} |-> f[k]]

ProxyTypeInputs ==
    {Absent, None, PyStr("HTTP"), PyStr("HTTPS"), PyStr("SOCKS5"),
     PyStr("http"), PyStr("Socks5"), PyStr("FTP")}

ConnectionInputs ==
    {Absent, None} \cup
    {PyDict(MkDict([httpPort |-> h, httpsPort |-> s, socks5Port |-> k])) :
        h \in {Absent, None, PyInt(8080)},
        s \in {Absent, PyInt(8443)},
        k \in {Absent, None, PyInt(1080)}}

PortRecords ==
    {MkDict([id |-> PyInt(1), proxyType |-> t, connection |-> c]) :
        t \in ProxyTypeInputs, c \in ConnectionInputs}

BandwidthInputs ==
    {Absent, None} \cup
    {PyDict(MkDict([total |-> t, used |-> u])) :
        t \in {Absent, None, PyInt(0), PyInt(100)},
        u \in {Absent, None, PyInt(0), PyInt(30)}}

BandwidthRecords ==
    {MkDict([id |-> PyInt(7), proxyType |-> PyStr("SOCKS5"),
             connection |-> PyDict([socks5Port |-> PyInt(1080)]), bandwidth |-> b]) :
        b \in BandwidthInputs}

AuthenticationInputs ==
    {Absent, None} \cup
    {PyDict(MkDict([username |-> u, password |-> p, whitelistedIps |-> w,
                    authenticationType |-> a])) :
        u \in {Absent, None, PyStr(""), PyStr("user1")},
        p \in {Absent, PyStr("hunter2")},
        w \in {Absent, None, PyList(<<>>), PyList(<<PyStr("198.51.100.7")>>)},
        a \in {Absent, PyStr("USERNAME_PASSWORD"), PyStr("IP_WHITELIST")}}

AuthRecords ==
    {MkDict([id |-> PyInt(1), authentication |-> a, authenticationType |-> t]) :
        a \in AuthenticationInputs,
        t \in {Absent, PyStr("IP_WHITELIST")}}

\* Records in which any subset of the vendor's fields is absent or null
MissingFieldRecords ==
    {MkDict([id |-> PyInt(1), proxyType |-> t, status |-> s, connection |-> c,
             authentication |-> a, bandwidth |-> b, metadata |-> m]) :
        t \in {Absent, None, PyStr("HTTP")},
        s \in {Absent, None, PyStr("ACTIVE")},
        c \in {Absent, None, PyDict([httpPort |-> PyInt(8080), connectIp |-> None])},
        a \in {Absent, None, PyDict([username |-> PyStr("user1"), password |-> None])},
        b \in {Absent, None, PyDict([total |-> PyInt(100), used |-> None])},
        m \in {Absent, None, PyDict([ispName |-> None])}}

\* Values of the three types a JSON field can have
RedactValues ==
    {PyStr("hunter2"), PyList(<<PyStr("hunter2")>>),
     PyDict([value |-> PyStr("hunter2")]),
     PyDict([Password |-> PyStr("hunter2"), note |-> PyStr("x")])}

RedactKeys == {"password", "apiSecret", "PASSWORD_HASH", "secretToken", "notes"}

RedactRecords ==
    {(k :> v) @@ [id |-> PyInt(1), proxyType |-> PyStr("HTTP"),
                  authentication |-> PyDict([username |-> PyStr("user1"),
                                             password |-> PyStr("hunter2"),
                                             clientSecret |-> PyStr("s3")])] :
        k \in RedactKeys, v \in RedactValues}

MetadataNameInputs ==
    {Absent, None} \cup
    {PyDict(MkDict([name |-> n, label |-> l])) :
        n \in {Absent, None, PyStr("meta-name")},
        l \in {Absent, PyStr("meta-label")}}

\* Records with and without the vendor's name fields, identified by id
\* (a number or a string) or by proxy_id only
NameRecords ==
    {MkDict([id |-> i, proxy_id |-> p, name |-> n, label |-> l, alias |-> a,
             displayName |-> d, metadata |-> m]) :
        i \in {Absent, PyInt(1), PyStr("abc")},
        p \in {Absent, PyInt(3)},
        n \in {Absent, None, PyStr("vendor-name")},
        l \in {Absent, PyStr("vendor-label")},
        a \in {Absent, PyStr("vendor-alias")},
        d \in {Absent, PyStr("vendor-display")},
        m \in MetadataNameInputs}

\* What the vendor may put under "status": strings in any case, and
\* values that are no strings
StatusInputs ==
    {Absent, None, PyStr("ACTIVE"), PyStr("Expired"), PyStr("active"),
     PyStr("PENDING_PAYMENT"), PyStr(""), PyInt(1), PyInt(0), PyBool(TRUE),
     PyList(<<PyStr("ACTIVE")>>), PyDict([code |-> PyStr("ACTIVE")])}

StatusRecords ==
    {MkDict([id |-> PyInt(1), proxyType |-> PyStr("HTTP"), status |-> st]) :
        st \in StatusInputs}

RawRecords ==
    PortRecords \cup BandwidthRecords \cup AuthRecords \cup MissingFieldRecords
    \cup RedactRecords \cup NameRecords \cup StatusRecords

\* entry.options[CONF_PROXY_NAMES]: the stored overrides, keyed by the text
\* the user typed for the proxy id
OptionProxyNames ==
    {EmptyDict,
     [k \in {"1"} |-> PyStr("Office")],
     [k \in {"3"} |-> PyStr("Garage")],
     [k \in {"abc"} |-> PyStr("Lab")]}

\* int(k), or k itself when int(k) raises ValueError  (__init__.py lines 43-46)
CoerceKey(k) == IF IsDigits(k) THEN PyInt(StrToNat(k)) ELSE PyStr(k)

\* proxy_names_int of async_setup_entry  (__init__.py lines 38-48)
SetupProxyNames(options) ==
    [key \in {CoerceKey(k) : k \in DOMAIN options} |->
        options[CHOOSE k \in DOMAIN options : CoerceKey(k) = key]]

\* Local name overrides (coordinator.proxy_names) of the normalizer's runs
NameMaps == {SetupProxyNames(o) : o \in OptionProxyNames}

\* Local name overrides of the poll cycles
CycleNameMaps ==
    {EmptyDict, SetupProxyNames([k \in {"1", "3"} |->
                                    IF k = "1" THEN PyStr("Office") ELSE PyStr("Garage")])}

----------------------------------------------------------------------------
(* The normalizer applied to one record *)

NotRun == [notrun |-> TRUE]
NoError == [cls |-> "none", reason |-> "none", status |-> 0, text |-> ""]
NoCall == [kind |-> "none", exc |-> NoError]
NoRequest == [op |-> "none"]

\* The ids the vendor may list over the life of the config entry
PlatformProxyIds == {PyInt(1), PyInt(3)}

\* No platform has been set up
PlatformsIdle ==
    /\ _known_proxies = {}
    /\ _known_binary_proxies = {}
    /\ sensor_added = [k \in PlatformProxyIds |-> 0]
    /\ binary_added = [k \in PlatformProxyIds |-> 0]
    /\ listeners_due = <<>>
    /\ snapshots = 0

Idle ==
    /\ PlatformsIdle
    /\ call = NoRequest
    /\ reply = NotRun
    /\ data = None
    /\ pc = "idle"
    /\ balance_data = None
    /\ proxies_data = <<>>
    /\ proxies = EmptyDict
    /\ idx = 1
    /\ client_error = NoError
    /\ last_update = [kind |-> "none", cause |-> "none"]
    /\ wpc = "idle"
    /\ wop = "none"
    /\ w_call = NoCall
    /\ w_refreshed = FALSE
    /\ w_result = [kind |-> "none", cause |-> "none"]
    /\ refresh_requests = 0

InitNormalize ==
    /\ raw \in RawRecords
    /\ proxy_names \in NameMaps
    /\ normalized = NotRun
    /\ Idle

\* NormalizeRecord with the redaction done in place on the raw record
NormalizeRecord_RedactsInPlace ==
    /\ normalized = NotRun
    /\ normalized' = _normalize_proxy_data(proxy_names, raw)
    /\ raw' = _filter_sensitive_data(raw)
    /\ UNCHANGED <<proxy_names, clientVars, platformVars, cycleVars, serviceVars>>

NormalizeRecord ==
    /\ normalized = NotRun
    /\ normalized' = _normalize_proxy_data(proxy_names, raw)
    /\ UNCHANGED <<raw, proxy_names, clientVars, platformVars, cycleVars, serviceVars>>

NextNormalize == NormalizeRecord

SpecNormalize == InitNormalize /\ [][NextNormalize]_vars

Returned == "ok" \in DOMAIN normalized
Raised == "raised" \in DOMAIN normalized

----------------------------------------------------------------------------
(* API client: api.py *)

\* An exception object: its class, and what its message tells: why it was
\* raised, the HTTP status and the response text it quotes
Exc(cls, reason, status, text) ==
    [cls |-> cls, reason |-> reason, status |-> status, text |-> text]

\* isinstance(exception of class cls, base): ProxyCheapAuthError derives
\* from ProxyCheapApiError (api.py lines 26-31); CancelledError is a
\* BaseException and derives from neither
IsInstance(cls, base) ==
    \/ cls = base
    \/ cls = "ProxyCheapAuthError" /\ base = "ProxyCheapApiError"

Statuses == {200, 401, 403, 404, 500}

\* What can happen to one HTTP request
HttpOutcomes ==
    {[kind |-> "timeout", status |-> 0, parsable |-> FALSE, text |-> ""],
     [kind |-> "client_error", status |-> 0, parsable |-> FALSE, text |-> ""]} \cup
    {[kind |-> "response", status |-> st, parsable |-> p, text |-> "body"] :
        st \in Statuses, p \in BOOLEAN}

\* `body` is what response.json() gives when the text is parsable
_handle_response_403IsApiError(status, parsable, body, text) ==
    IF status = 401 THEN [raised |-> Exc("ProxyCheapAuthError", "http", status, "")]
    ELSE IF status >= 400 THEN [raised |-> Exc("ProxyCheapApiError", "http", status, text)]
    ELSE IF parsable THEN [ok |-> body]
    ELSE [raised |-> Exc("ProxyCheapApiError", "parse", 0, "")]

_handle_response(status, parsable, body, text) ==
    IF status = 401 THEN [raised |-> Exc("ProxyCheapAuthError", "http", status, "")]
    ELSE IF status = 403 THEN [raised |-> Exc("ProxyCheapAuthError", "http", status, "")]
    ELSE IF status >= 400 THEN [raised |-> Exc("ProxyCheapApiError", "http", status, text)]
    ELSE IF parsable THEN [ok |-> body]
    ELSE [raised |-> Exc("ProxyCheapApiError", "parse", 0, "")]

_request(outcome, body) ==
    CASE outcome.kind = "timeout" ->
            [raised |-> Exc("ProxyCheapApiError", "timeout", 0, "")]
      [] outcome.kind = "client_error" ->
            [raised |-> Exc("ProxyCheapApiError", "client_error", 0, "")]
      [] OTHER -> _handle_response(outcome.status, outcome.parsable, body, outcome.text)

\* get_balance that answers a failed request with a default balance
get_balance_DefaultOnError(outcome, body) ==
    LET r == _request(outcome, body)
    IN IF "raised" \in DOMAIN r THEN [ok |-> PyDict([balance |-> PyInt(0)])] ELSE r

get_balance(outcome, body) == _request(outcome, body)

\* get_proxies without the branch for the "data" key
get_proxies_NoDataKey(outcome, body) ==
    LET r == _request(outcome, body)
    IN IF "raised" \in DOMAIN r THEN r
       ELSE LET result == r.ok
            IN IF IsList(result) THEN [ok |-> result]
               ELSE IF IsDict(result) /\ "proxies" \in DOMAIN result.dict
                    THEN [ok |-> result.dict["proxies"]]
               ELSE [ok |-> IF Truthy(result) THEN PyList(<<result>>) ELSE PyList(<<>>)]

get_proxies(outcome, body) ==
    LET r == _request(outcome, body)
    IN IF "raised" \in DOMAIN r THEN r
       ELSE LET result == r.ok
            IN IF IsList(result) THEN [ok |-> result]
               ELSE IF IsDict(result) /\ "proxies" \in DOMAIN result.dict
                    THEN [ok |-> result.dict["proxies"]]
               ELSE IF IsDict(result) /\ "data" \in DOMAIN result.dict
                    THEN [ok |-> result.dict["data"]]
               ELSE [ok |-> IF Truthy(result) THEN PyList(<<result>>) ELSE PyList(<<>>)]

\* validate_credentials with only the first except clause
validate_credentials_CatchesAuthOnly(outcome, body) ==
    LET r == get_balance(outcome, body)
    IN IF "ok" \in DOMAIN r THEN [ok |-> PyBool(TRUE)]
       ELSE IF IsInstance(r.raised.cls, "ProxyCheapAuthError") THEN [ok |-> PyBool(FALSE)]
       ELSE r

validate_credentials(outcome, body) ==
    LET r == get_balance(outcome, body)
    IN IF "ok" \in DOMAIN r THEN [ok |-> PyBool(TRUE)]
       ELSE IF IsInstance(r.raised.cls, "ProxyCheapAuthError") THEN [ok |-> PyBool(FALSE)]
       ELSE IF IsInstance(r.raised.cls, "ProxyCheapApiError") THEN [ok |-> PyBool(FALSE)]
       ELSE r

\* get_proxy and buy_bandwidth: each is one _request
get_proxy(outcome, body) == _request(outcome, body)
buy_bandwidth(outcome, body) == _request(outcome, body)

\* update_whitelist, extend_proxy, set_auto_extend: each is one _request
WriteOps == {"extend_proxy", "update_whitelist", "set_auto_extend"}

WriteCall(op, outcome, body) == _request(outcome, body)

----------------------------------------------------------------------------
(* One client operation on one HTTP exchange *)

ClientOps ==
    {"get_balance", "get_proxies", "get_proxy", "buy_bandwidth",
     "validate_credentials"} \cup WriteOps

ClientStatuses == {200, 201, 400, 401, 403, 404, 429, 500}

ClientOutcomes ==
    {[kind |-> "timeout", status |-> 0, parsable |-> FALSE, text |-> ""],
     [kind |-> "client_error", status |-> 0, parsable |-> FALSE, text |-> ""]} \cup
    {[kind |-> "response", status |-> st, parsable |-> p, text |-> t] :
        st \in ClientStatuses, p \in BOOLEAN, t \in {"", "text-of-body"}}

OneProxyList == PyList(<<PyDict([id |-> PyInt(1), proxyType |-> PyStr("HTTP")])>>)

\* Parsed bodies: the shapes list-proxies may come in, and others
ClientBodies ==
    {OneProxyList,
     PyList(<<>>),
     PyDict([proxies |-> OneProxyList]),
     PyDict([data |-> OneProxyList]),
     PyDict([proxies |-> OneProxyList, data |-> PyList(<<>>)]),
     PyDict([id |-> PyInt(1), proxyType |-> PyStr("HTTP")]),
     PyDict([balance |-> PyInt(10), currency |-> PyStr("EUR")]),
     PyDict(EmptyDict)}

ClientOperation(op, outcome, body) ==
    CASE op = "get_balance" -> get_balance(outcome, body)
      [] op = "get_proxies" -> get_proxies(outcome, body)
      [] op = "get_proxy" -> get_proxy(outcome, body)
      [] op = "buy_bandwidth" -> buy_bandwidth(outcome, body)
      [] op = "validate_credentials" -> validate_credentials(outcome, body)
      [] OTHER -> WriteCall(op, outcome, body)

InitClient ==
    /\ call \in [op : ClientOps, outcome : ClientOutcomes, body : ClientBodies]
    /\ reply = NotRun
    /\ PlatformsIdle
    /\ raw = EmptyDict
    /\ normalized = NotRun
    /\ proxy_names = EmptyDict
    /\ data = None
    /\ pc = "idle"
    /\ balance_data = None
    /\ proxies_data = <<>>
    /\ proxies = EmptyDict
    /\ idx = 1
    /\ client_error = NoError
    /\ last_update = [kind |-> "none", cause |-> "none"]
    /\ wpc = "idle"
    /\ wop = "none"
    /\ w_call = NoCall
    /\ w_refreshed = FALSE
    /\ w_result = [kind |-> "none", cause |-> "none"]
    /\ refresh_requests = 0

ClientCall ==
    /\ reply = NotRun
    /\ reply' = ClientOperation(call.op, call.outcome, call.body)
    /\ UNCHANGED <<call, proxy_names, normVars, cycleVars, serviceVars, platformVars>>

NextClient == ClientCall

SpecClient == InitClient /\ [][NextClient]_vars

----------------------------------------------------------------------------
(* Config flow: config_flow.py, async_step_user *)

\* The errors dict after the try statement of lines 70-80 ("none": empty)
StepUserErrors(outcome, body) ==
    LET v == validate_credentials(outcome, body)
    IN IF "ok" \in DOMAIN v
       THEN IF Truthy(v.ok) THEN "none" ELSE "invalid_auth"
       ELSE IF IsInstance(v.raised.cls, "ProxyCheapAuthError") THEN "invalid_auth"
       ELSE IF IsInstance(v.raised.cls, "ProxyCheapApiError") THEN "cannot_connect"
       ELSE "unknown"

\* The result of the step: the form (with the error to show), an abort, or
\* the created entry
async_step_user(submitted, configured, outcome, body) ==
    IF ~submitted THEN [type |-> "form", errors |-> "none"]
    ELSE IF configured THEN [type |-> "abort", errors |-> "already_configured"]
    ELSE LET errors == StepUserErrors(outcome, body)
         IN IF errors = "none" THEN [type |-> "create_entry", errors |-> "none"]
            ELSE [type |-> "form", errors |-> errors]

\* The step is entered without input (first display) or with the user's
\* credentials, for an account that is or is not configured already
StepUserCalls ==
    [op : {"async_step_user"}, submitted : BOOLEAN, configured : BOOLEAN,
     outcome : ClientOutcomes, body : ClientBodies]

InitConfigFlow ==
    /\ call \in StepUserCalls
    /\ reply = NotRun
    /\ PlatformsIdle
    /\ raw = EmptyDict
    /\ normalized = NotRun
    /\ proxy_names = EmptyDict
    /\ data = None
    /\ pc = "idle"
    /\ balance_data = None
    /\ proxies_data = <<>>
    /\ proxies = EmptyDict
    /\ idx = 1
    /\ client_error = NoError
    /\ last_update = [kind |-> "none", cause |-> "none"]
    /\ wpc = "idle"
    /\ wop = "none"
    /\ w_call = NoCall
    /\ w_refreshed = FALSE
    /\ w_result = [kind |-> "none", cause |-> "none"]
    /\ refresh_requests = 0

StepUser ==
    /\ reply = NotRun
    /\ reply' = [ok |-> async_step_user(call.submitted, call.configured,
                                        call.outcome, call.body)]
    /\ UNCHANGED <<call, proxy_names, normVars, cycleVars, serviceVars, platformVars>>

NextConfigFlow == StepUser

SpecConfigFlow == InitConfigFlow /\ [][NextConfigFlow]_vars

----------------------------------------------------------------------------
(* Options update: __init__.py, _async_update_listener; the unique ids are *)
(* those of sensor.py and binary_sensor.py                                 *)

\* const.py, DEFAULT_ENABLED_SENSORS and SENSOR_KEYS
DEFAULT_ENABLED_SENSORS ==
    {"status", "ip_address", "port", "bandwidth_remaining", "expiry_date", "active"}

SENSOR_KEYS ==
    {"status", "ip_address", "port", "username", "protocol", "network_type",
     "country", "bandwidth_total", "bandwidth_used", "bandwidth_remaining",
     "expiry_date", "auto_extend", "active", "auto_extend_enabled"}

EntryId == "e1"

\* ProxyCheapAccountSensor.__init__  (sensor.py line 261)
AccountUniqueId(key) == EntryId \o "_" \o key

\* ProxyCheapProxySensor.__init__  (sensor.py line 305)
ProxyUniqueId(proxy_id, key) == EntryId \o "_proxy_" \o proxy_id \o "_" \o key

\* ProxyCheapProxyBinarySensor.__init__  (binary_sensor.py lines 133-135)
ProxyBinaryUniqueId(proxy_id, key) ==
    EntryId \o "_proxy_" \o proxy_id \o "_" \o key \o "_binary"

\* ACCOUNT_SENSORS  (sensor.py lines 53-71)
AccountUniqueIds == {AccountUniqueId("balance"), AccountUniqueId("proxy_count")}

ProxyUniqueIds ==
    {ProxyUniqueId("1", "status"), ProxyUniqueId("1", "bandwidth_remaining"),
     ProxyUniqueId("3", "username"), ProxyBinaryUniqueId("3", "active")}

\* The registry entries of the config entry: disabled_by of each entity
Registries ==
    [AccountUniqueIds \cup ProxyUniqueIds -> {"none", "integration"}]

\* entry.options.get(CONF_ENABLED_SENSORS, DEFAULT_ENABLED_SENSORS)
EnabledSensorsOptions ==
    {DEFAULT_ENABLED_SENSORS, {}, {"username", "bandwidth_remaining"}, SENSOR_KEYS}

\* Lines 84-93: the sensor key read back from the unique id
SensorKeyOf(unique_id) ==
    LET after_proxy == SplitOnce(unique_id, "_proxy_")[2]
        parts == Split(after_proxy, "_")
    IN IF parts[Len(parts)] = "binary"
       THEN Join("_", SubSeq(parts, 2, Len(parts) - 1))
       ELSE Join("_", SubSeq(parts, 2, Len(parts)))

\* One iteration of the loop of lines 78-103: the entity's new disabled_by
UpdatedDisabledBy(unique_id, disabled_by, enabled_sensors) ==
    IF ~Contains(unique_id, "_proxy_") THEN disabled_by
    ELSE LET should_enable == SensorKeyOf(unique_id) \in enabled_sensors
             disabled == disabled_by # "none"
         IN IF disabled /\ should_enable THEN "none"
            ELSE IF ~disabled /\ ~should_enable THEN "integration"
            ELSE disabled_by

\* The registry after the listener, and the reload of line 106
_async_update_listener(registry, enabled_sensors) ==
    [registry |-> [u \in DOMAIN registry |->
                      UpdatedDisabledBy(u, registry[u], enabled_sensors)],
     reloaded |-> TRUE]

InitListener ==
    /\ call \in [op : {"_async_update_listener"}, registry : Registries,
                  enabled_sensors : EnabledSensorsOptions]
    /\ reply = NotRun
    /\ PlatformsIdle
    /\ raw = EmptyDict
    /\ normalized = NotRun
    /\ proxy_names = EmptyDict
    /\ data = None
    /\ pc = "idle"
    /\ balance_data = None
    /\ proxies_data = <<>>
    /\ proxies = EmptyDict
    /\ idx = 1
    /\ client_error = NoError
    /\ last_update = [kind |-> "none", cause |-> "none"]
    /\ wpc = "idle"
    /\ wop = "none"
    /\ w_call = NoCall
    /\ w_refreshed = FALSE
    /\ w_result = [kind |-> "none", cause |-> "none"]
    /\ refresh_requests = 0

OptionsUpdated ==
    /\ reply = NotRun
    /\ reply' = [ok |-> _async_update_listener(call.registry, call.enabled_sensors)]
    /\ UNCHANGED <<call, proxy_names, normVars, cycleVars, serviceVars, platformVars>>

NextListener == OptionsUpdated

SpecListener == InitListener /\ [][NextListener]_vars

----------------------------------------------------------------------------
(* Vendor responses of a poll cycle *)

BalanceBodies ==
    {PyDict([balance |-> PyInt(10), currency |-> PyStr("EUR")]),
     PyDict(EmptyDict)}

CycleRecords ==
    {[id |-> PyInt(1), proxyType |-> PyStr("HTTP"),
      connection |-> PyDict([httpPort |-> PyInt(8080)]),
      authentication |-> PyDict([username |-> PyStr("user1"),
                                 password |-> PyStr("hunter2")]),
      bandwidth |-> PyDict([total |-> PyInt(100), used |-> PyInt(30)]),
      status |-> PyStr("ACTIVE")],
     [id |-> PyInt(2), proxyType |-> None],
     [proxy_id |-> PyInt(3), proxyType |-> PyStr("SOCKS5"),
      connection |-> PyDict([socks5Port |-> PyInt(1080)])],
     [proxyType |-> PyStr("HTTPS"), status |-> PyStr("EXPIRED")],
     [id |-> PyInt(0), proxyType |-> PyStr("HTTP")]}

RECURSIVE SeqsUpTo(_, _)
\* The sequences over S of length at most n
SeqsUpTo(S, n) ==
    IF n = 0 THEN {<<>>}
    ELSE LET shorter == SeqsUpTo(S, n - 1)
         IN shorter \cup {Append(q, x) : q \in shorter, x \in S}

ProxyLists == {PyList(q) : q \in SeqsUpTo({PyDict(r) : r \in CycleRecords}, MaxProxies)}

\* The shapes the vendor may answer list-proxies with
ProxiesBodies ==
    ProxyLists
    \cup {PyDict([proxies |-> l]) : l \in ProxyLists}
    \cup {PyDict([data |-> l]) : l \in ProxyLists}
    \cup {PyDict(r) : r \in CycleRecords}
    \cup {PyDict(EmptyDict)}

----------------------------------------------------------------------------
(* Coordinator: coordinator.py, _async_update_data *)

\* The dict returned at lines 61-66
Snapshot(balance, proxy_map) ==
    [balance |-> Get(balance, "balance", PyInt(0)),
     currency |-> Get(balance, "currency", PyStr("USD")),
     proxies |-> proxy_map,
     proxy_count |-> Cardinality(DOMAIN proxy_map)]

\* proxy.get("id") or proxy.get("proxy_id")  (line 57)
ProxyId(proxy) == Or(Get1(proxy, "id"), Get1(proxy, "proxy_id"))

\* LoopDone with the return statement inside the loop body
LoopDone_ReturnsInsideLoop(i, records) == i > 1 \/ i > Len(records)

\* The for loop of line 54 is over: every record has been visited
LoopDone(i, records) == i > Len(records)

\* UpdateDataExcept with a handler that swallows the client's errors and
\* returns an empty snapshot
UpdateDataExcept_Swallows(exc) ==
    IF IsInstance(exc.cls, "ProxyCheapApiError")
    THEN [returned |-> Snapshot(EmptyDict, EmptyDict)]
    ELSE [raised |-> exc.cls, cause |-> exc.cls]

\* How the coroutine ends when exception `exc` is raised inside the try
\* block (lines 67-68): a ProxyCheapApiError becomes UpdateFailed, any
\* other exception leaves the coroutine as it is
UpdateDataExcept(exc) ==
    IF IsInstance(exc.cls, "ProxyCheapApiError")
    THEN [raised |-> "UpdateFailed", cause |-> exc.cls]
    ELSE [raised |-> exc.cls, cause |-> exc.cls]

\* ResetLocals with the proxy map kept from one cycle to the next
ResetLocals_KeepsProxies ==
    /\ balance_data' = None
    /\ proxies_data' = <<>>
    /\ proxies' = proxies
    /\ idx' = 1

ResetLocals ==
    /\ balance_data' = None
    /\ proxies_data' = <<>>
    /\ proxies' = EmptyDict
    /\ idx' = 1

\* The coroutine has ended: the host stores a returned dict as the new
\* coordinator.data, and records an exception as a failed update
EndCycle(ending) ==
    /\ pc' = "idle"
    /\ ResetLocals
    /\ IF "returned" \in DOMAIN ending
       THEN /\ data' = ending.returned
            /\ last_update' = [kind |-> "success", cause |-> "none"]
       ELSE /\ data' = data
            /\ last_update' = [kind |-> ending.raised, cause |-> ending.cause]

\* The host calls _async_update_data (timer, first refresh or refresh request)
StartCycle ==
    /\ pc = "idle"
    /\ pc' = "get_balance"
    /\ client_error' = NoError
    /\ ResetLocals
    /\ UNCHANGED <<data, last_update, proxy_names, clientVars, platformVars, normVars, serviceVars>>

\* await self.api.get_balance()  (line 45)
BalanceReturns ==
    /\ pc = "get_balance"
    /\ \E outcome \in HttpOutcomes, body \in BalanceBodies :
          LET r == get_balance(outcome, body)
          IN IF "ok" \in DOMAIN r
             THEN /\ balance_data' = r.ok.dict
                  /\ pc' = "get_proxies"
                  /\ UNCHANGED <<data, proxies_data, proxies, idx, client_error,
                                 last_update>>
             ELSE /\ client_error' = r.raised
                  /\ EndCycle(UpdateDataExcept(r.raised))
    /\ UNCHANGED <<proxy_names, clientVars, platformVars, normVars, serviceVars>>

\* await self.api.get_proxies()  (line 46)
ProxiesReturns ==
    /\ pc = "get_proxies"
    /\ \E outcome \in HttpOutcomes, body \in ProxiesBodies :
          LET r == get_proxies(outcome, body)
          IN IF "ok" \in DOMAIN r
             THEN /\ proxies_data' = r.ok.list
                  /\ pc' = "normalize"
                  /\ UNCHANGED <<data, balance_data, proxies, idx, client_error,
                                 last_update>>
             ELSE /\ client_error' = r.raised
                  /\ EndCycle(UpdateDataExcept(r.raised))
    /\ UNCHANGED <<proxy_names, clientVars, platformVars, normVars, serviceVars>>

\* One iteration of the for loop (lines 54-59)
NormalizeStep ==
    /\ pc = "normalize"
    /\ ~LoopDone(idx, proxies_data)
    /\ LET proxy == proxies_data[idx].dict
           proxy_id == ProxyId(proxy)
           r == _normalize_proxy_data(proxy_names, proxy)
       IN IF ~Truthy(proxy_id)
          THEN /\ idx' = idx + 1
               /\ UNCHANGED <<data, pc, balance_data, proxies_data, proxies,
                              last_update>>
          ELSE IF "ok" \in DOMAIN r
          THEN /\ proxies' = (proxy_id :> r.ok) @@ proxies
               /\ idx' = idx + 1
               /\ UNCHANGED <<data, pc, balance_data, proxies_data, last_update>>
          ELSE EndCycle(UpdateDataExcept(Exc(r.raised, "normalize", 0, "")))
    /\ UNCHANGED <<client_error, proxy_names, clientVars, platformVars, normVars, serviceVars>>

\* return {...}  (lines 61-66)
Return ==
    /\ pc = "normalize"
    /\ LoopDone(idx, proxies_data)
    /\ EndCycle([returned |-> Snapshot(balance_data, proxies)])
    /\ UNCHANGED <<client_error, proxy_names, clientVars, platformVars, normVars, serviceVars>>

\* The host cancels the cycle while it is suspended in a client call
Cancel ==
    /\ pc \in {"get_balance", "get_proxies"}
    /\ EndCycle(UpdateDataExcept(Exc("CancelledError", "cancel", 0, "")))
    /\ UNCHANGED <<client_error, proxy_names, clientVars, platformVars, normVars, serviceVars>>

----------------------------------------------------------------------------
(* Entity platforms: sensor.py and binary_sensor.py, async_setup_entry and  *)
(* the listener async_check_new_proxies each of them registers              *)

MaxSnapshots == 3

\* A published snapshot whose proxy map has the keys `ids`
PlatformSnapshot(ids) ==
    Snapshot([balance |-> PyInt(10)],
             [k \in ids |->
                 _normalize_proxy_data(EmptyDict,
                                       [id |-> k, proxyType |-> PyStr("HTTP")]).ok])

\* Body of async_check_new_proxies (sensor.py lines 216-238,
\* binary_sensor.py lines 74-96): the proxies entities are requested for,
\* and the new value of the known set
async_check_new_proxies(coordinator_data, known_proxies) ==
    IF coordinator_data = None
    THEN [new_proxies |-> {}, known |-> known_proxies]
    ELSE LET current_proxies == DOMAIN coordinator_data.proxies
         IN [new_proxies |-> current_proxies \ known_proxies,
             known |-> current_proxies]

\* async_add_entities is called with the entities of each proxy of `ids`
AddEntities(added, ids) ==
    [k \in DOMAIN added |-> IF k \in ids THEN added[k] + 1 ELSE added[k]]

\* Both platforms have been set up on the snapshot of the first refresh
InitPlatforms ==
    /\ \E ids \in SUBSET PlatformProxyIds :
          /\ data = PlatformSnapshot(ids)
          /\ _known_proxies = ids
          /\ _known_binary_proxies = ids
          /\ sensor_added = AddEntities([k \in PlatformProxyIds |-> 0], ids)
          /\ binary_added = AddEntities([k \in PlatformProxyIds |-> 0], ids)
    /\ listeners_due = <<>>
    /\ snapshots = 0
    /\ call = NoRequest
    /\ reply = NotRun
    /\ raw = EmptyDict
    /\ normalized = NotRun
    /\ proxy_names = EmptyDict
    /\ pc = "idle"
    /\ balance_data = None
    /\ proxies_data = <<>>
    /\ proxies = EmptyDict
    /\ idx = 1
    /\ client_error = NoError
    /\ last_update = [kind |-> "success", cause |-> "none"]
    /\ wpc = "idle"
    /\ wop = "none"
    /\ w_call = NoCall
    /\ w_refreshed = FALSE
    /\ w_result = [kind |-> "none", cause |-> "none"]
    /\ refresh_requests = 0

\* A poll cycle publishes a snapshot; the coordinator then calls its
\* listeners in the order they were added
PublishSnapshot ==
    /\ listeners_due = <<>>
    /\ snapshots < MaxSnapshots
    /\ \E ids \in SUBSET PlatformProxyIds : data' = PlatformSnapshot(ids)
    /\ listeners_due' = <<"sensor", "binary_sensor">>
    /\ snapshots' = snapshots + 1
    /\ UNCHANGED <<_known_proxies, _known_binary_proxies, sensor_added, binary_added,
                   pc, balance_data, proxies_data, proxies, idx, client_error,
                   last_update, proxy_names, clientVars, normVars, serviceVars>>

\* sensor.py, async_check_new_proxies
SensorCheckNewProxies ==
    /\ listeners_due # <<>>
    /\ Head(listeners_due) = "sensor"
    /\ LET r == async_check_new_proxies(data, _known_proxies)
       IN /\ sensor_added' = AddEntities(sensor_added, r.new_proxies)
          /\ _known_proxies' = r.known
    /\ listeners_due' = Tail(listeners_due)
    /\ UNCHANGED <<_known_binary_proxies, binary_added, snapshots, proxy_names,
                   clientVars, normVars, cycleVars, serviceVars>>

\* binary_sensor.py, async_check_new_proxies
BinarySensorCheckNewProxies ==
    /\ listeners_due # <<>>
    /\ Head(listeners_due) = "binary_sensor"
    /\ LET r == async_check_new_proxies(data, _known_binary_proxies)
       IN /\ binary_added' = AddEntities(binary_added, r.new_proxies)
          /\ _known_binary_proxies' = r.known
    /\ listeners_due' = Tail(listeners_due)
    /\ UNCHANGED <<_known_proxies, sensor_added, snapshots, proxy_names,
                   clientVars, normVars, cycleVars, serviceVars>>

NextPlatforms ==
    \/ PublishSnapshot
    \/ SensorCheckNewProxies
    \/ BinarySensorCheckNewProxies

SpecPlatforms == InitPlatforms /\ [][NextPlatforms]_vars

----------------------------------------------------------------------------
(* Services: __init__.py, _async_setup_services *)

\* What _get_proxy_id_from_entity finds for the entity of the call
EntityLookups == {"no_state", "no_proxy_id", "found"}

\* AfterWriteCall with the refresh in a finally clause
AfterWriteCall_AlwaysRefreshes(r) == [next |-> "request_refresh", cause |-> "none"]

\* How a write handler goes on after its client call (lines 153-158,
\* 170-175, 182-187)
AfterWriteCall(r) ==
    IF "ok" \in DOMAIN r THEN [next |-> "request_refresh", cause |-> "none"]
    ELSE IF IsInstance(r.raised.cls, "ProxyCheapApiError")
    THEN [next |-> "HomeAssistantError", cause |-> r.raised.cls]
    ELSE [next |-> r.raised.cls, cause |-> r.raised.cls]

\* A write service is called
ServiceCall ==
    /\ wpc = "idle"
    /\ refresh_requests < MaxRequests
    /\ \E op \in WriteOps, lookup \in EntityLookups :
          /\ wop' = op
          /\ w_call' = NoCall
          /\ w_refreshed' = FALSE
          /\ IF lookup = "found"
             THEN /\ wpc' = "api_call"
                  /\ w_result' = [kind |-> "none", cause |-> "none"]
             ELSE /\ wpc' = "idle"
                  /\ w_result' = [kind |-> "HomeAssistantError", cause |-> lookup]
    /\ UNCHANGED <<refresh_requests, proxy_names, clientVars, platformVars, normVars, cycleVars>>

\* await api.extend_proxy / update_whitelist / set_auto_extend
ApiCallReturns ==
    /\ wpc = "api_call"
    /\ \E outcome \in HttpOutcomes :
          LET r == WriteCall(wop, outcome, PyDict(EmptyDict))
              after == AfterWriteCall(r)
          IN /\ w_call' = IF "ok" \in DOMAIN r
                          THEN [kind |-> "ok", exc |-> NoError]
                          ELSE [kind |-> "raised", exc |-> r.raised]
             /\ IF after.next = "request_refresh"
                THEN /\ wpc' = "request_refresh"
                     /\ UNCHANGED w_result
                ELSE /\ wpc' = "idle"
                     /\ w_result' = [kind |-> after.next, cause |-> after.cause]
    /\ UNCHANGED <<wop, w_refreshed, refresh_requests, proxy_names, clientVars, platformVars, normVars,
                   cycleVars>>

\* await coordinator.async_request_refresh() in a write handler
RequestRefresh ==
    /\ wpc = "request_refresh"
    /\ refresh_requests' = refresh_requests + 1
    /\ w_refreshed' = TRUE
    /\ w_result' = [kind |-> "ok", cause |-> "none"]
    /\ wpc' = "idle"
    /\ UNCHANGED <<wop, w_call, proxy_names, clientVars, platformVars, normVars, cycleVars>>

\* handle_refresh (lines 144-146)
HandleRefresh ==
    /\ refresh_requests < MaxRequests
    /\ refresh_requests' = refresh_requests + 1
    /\ UNCHANGED <<wpc, wop, w_call, w_refreshed, w_result, proxy_names, clientVars, platformVars, normVars,
                   cycleVars>>

----------------------------------------------------------------------------
(* The poll cycles of one coordinator *)

Init ==
    /\ raw = EmptyDict
    /\ normalized = NotRun
    /\ proxy_names \in CycleNameMaps
    /\ Idle

Next ==
    \/ StartCycle
    \/ BalanceReturns
    \/ ProxiesReturns
    \/ NormalizeStep
    \/ Return
    \/ Cancel

Spec == Init /\ [][Next]_vars

----------------------------------------------------------------------------
(* The service calls.  The handlers read and write nothing of the          *)
(* coordinator; they only ask it for a refresh.                            *)

InitServices ==
    /\ raw = EmptyDict
    /\ normalized = NotRun
    /\ proxy_names = EmptyDict
    /\ Idle

NextServices ==
    \/ ServiceCall
    \/ ApiCallReturns
    \/ RequestRefresh
    \/ HandleRefresh

SpecServices == InitServices /\ [][NextServices]_vars

----------------------------------------------------------------------------
(* Properties of the normalizer *)

\* What the raw record itself says, read without the normalizer's helpers
RawField(proxy, name) == IF name \in DOMAIN proxy THEN proxy[name] ELSE Absent

RawSubObject(proxy, name) ==
    IF IsDict(RawField(proxy, name)) THEN proxy[name].dict ELSE EmptyDict

\* C6: in every normalized record, bandwidth_remaining is null if and only
\* if bandwidth_total is null, and bandwidth_unlimited is true exactly when
\* bandwidth_total is null.
BandwidthNullTogether ==
    Returned =>
        LET n == normalized.ok
        IN /\ (n.bandwidth_remaining = None) <=> (n.bandwidth_total = None)
           /\ (n.bandwidth_unlimited = PyBool(TRUE)) <=> (n.bandwidth_total = None)

\* A metered record whose `used` is null or absent has been normalized
MeteredWithoutUsedNormalized ==
    /\ Returned
    /\ RawField(RawSubObject(raw, "bandwidth"), "total") = PyInt(100)
    /\ RawField(RawSubObject(raw, "bandwidth"), "used") \in {Absent, None}
    /\ normalized.ok.bandwidth_remaining = PyInt(100)
    /\ normalized.ok.bandwidth_unlimited = PyBool(FALSE)

HasWhitelistedIp(proxy) ==
    LET w == RawField(RawSubObject(proxy, "authentication"), "whitelistedIps")
    IN IsList(w) /\ Len(w.list) >= 1

HasUsername(proxy) ==
    LET u == RawField(RawSubObject(proxy, "authentication"), "username")
    IN IsStr(u) /\ u.str # ""

\* C7: the normalized authentication_type is "IP_WHITELIST" when at least
\* one whitelisted IP is present, otherwise "USERNAME_PASSWORD" when a
\* (non-empty) username is present, otherwise null; it has no other value
\* and does not depend on an authenticationType field sent by the vendor.
AuthTypeDerivedFromWhitelistThenUsername ==
    Returned =>
        normalized.ok.authentication_type =
            IF HasWhitelistedIp(raw) THEN PyStr("IP_WHITELIST")
            ELSE IF HasUsername(raw) THEN PyStr("USERNAME_PASSWORD")
            ELSE None

\* A record with both a whitelisted IP and a username, whose vendor field
\* says USERNAME_PASSWORD, has been normalized to IP_WHITELIST
WhitelistWinsOverUsernameAndVendorField ==
    /\ Returned
    /\ HasWhitelistedIp(raw)
    /\ HasUsername(raw)
    /\ RawField(RawSubObject(raw, "authentication"), "authenticationType")
          = PyStr("USERNAME_PASSWORD")
    /\ normalized.ok.authentication_type = PyStr("IP_WHITELIST")

\* A key name that contains "password" or "secret" in any letter case
NamesCredential(k) == Contains(lower(k), "password") \/ Contains(lower(k), "secret")

\* C8: the retained raw copy (_raw) holds no key whose name contains
\* "password" or "secret" in any letter case, at the top level or directly
\* inside a top-level sub-object, whatever the type of the value.
RawCopyHoldsNoCredentialKey ==
    Returned =>
        LET copy == normalized.ok["_raw"].dict
        IN \A k \in DOMAIN copy :
              /\ ~NamesCredential(k)
              /\ IsDict(copy[k]) => \A k2 \in DOMAIN copy[k].dict : ~NamesCredential(k2)

\* C9: for every record in which any subset of the vendor fields is absent
\* or null, normalization returns (does not raise) a record with the fixed
\* key set.
NormalizationToleratesMissingFields ==
    (normalized # NotRun /\ raw \in MissingFieldRecords) =>
        /\ Returned
        /\ DOMAIN normalized.ok = NormalizedKeys

\* A port that is available in the connection sub-object
AvailablePort(proxy, name) ==
    LET p == RawField(RawSubObject(proxy, "connection"), name)
    IN IF p \in {Absent, None} THEN None ELSE p

FirstAvailablePort(proxy) ==
    IF AvailablePort(proxy, "httpPort") # None THEN AvailablePort(proxy, "httpPort")
    ELSE IF AvailablePort(proxy, "httpsPort") # None THEN AvailablePort(proxy, "httpsPort")
    ELSE AvailablePort(proxy, "socks5Port")

\* The port the record's protocol asks for (the protocol is compared
\* without regard to letter case)
PortForProtocol(proxy) ==
    LET t == RawField(proxy, "proxyType")
        protocol == IF IsStr(t) THEN upper(t.str) ELSE ""
    IN CASE protocol = "HTTP" -> AvailablePort(proxy, "httpPort")
         [] protocol = "HTTPS" -> AvailablePort(proxy, "httpsPort")
         [] protocol = "SOCKS5" -> AvailablePort(proxy, "socks5Port")
         [] OTHER -> FirstAvailablePort(proxy)

\* C10: the normalized port is the port of the record's protocol (HTTP,
\* HTTPS, SOCKS5); when the protocol is absent (missing or null) or
\* unrecognized it is the first available of httpPort, httpsPort,
\* socks5Port, and null when none is available.
PortFollowsProtocol ==
    (normalized # NotRun /\ raw \in PortRecords) =>
        /\ Returned
        /\ normalized.ok.port = PortForProtocol(raw)

\* The identifier of a record: the vendor id, or proxy_id when id is missing
Identifier(proxy) ==
    IF RawField(proxy, "id") \notin {Absent, None} THEN proxy["id"]
    ELSE IF RawField(proxy, "proxy_id") \notin {Absent, None} THEN proxy["proxy_id"]
    ELSE None

\* The first of the values that is present (neither absent nor null)
RECURSIVE FirstPresent(_)
FirstPresent(values) ==
    IF values = <<>> THEN None
    ELSE IF Head(values) \notin {Absent, None} THEN Head(values)
    ELSE FirstPresent(Tail(values))

\* The local override configured for the record's identifier: under the
\* identifier itself, else under the identifier written as a string
OverrideFor(names, proxy) ==
    LET i == Identifier(proxy)
    IN IF i = None THEN Absent
       ELSE IF i \in DOMAIN names THEN names[i]
       ELSE IF PyStr(ToStr(i)) \in DOMAIN names THEN names[PyStr(ToStr(i))]
       ELSE Absent

\* C11: the normalized name is the first present of: the local override for
\* the proxy's identifier (by numeric id, then by the identifier as a
\* string), the vendor's name, label, alias, displayName, metadata name,
\* metadata label; null when none is present.  A local override always wins
\* over the vendor's names.
NameResolvedInOrder ==
    (Returned /\ raw \in NameRecords) =>
        normalized.ok.name =
            FirstPresent(<<OverrideFor(proxy_names, raw),
                           RawField(raw, "name"),
                           RawField(raw, "label"),
                           RawField(raw, "alias"),
                           RawField(raw, "displayName"),
                           RawField(RawSubObject(raw, "metadata"), "name"),
                           RawField(RawSubObject(raw, "metadata"), "label")>>)

\* C12: when the bandwidth total T is not null, bandwidth_remaining is
\* T minus used, a null or absent used counting as 0.
RemainingIsTotalMinusUsed ==
    LET total == RawField(RawSubObject(raw, "bandwidth"), "total")
        used == RawField(RawSubObject(raw, "bandwidth"), "used")
    IN (Returned /\ IsInt(total)) =>
          normalized.ok.bandwidth_remaining =
              PyInt(total.int - (IF IsInt(used) THEN used.int ELSE 0))

\* The record {"id":7,"proxyType":"SOCKS5","connection":{"socks5Port":1080},
\* "bandwidth":{"total":100,"used":30}} has been normalized
ScenarioRecordNormalized ==
    /\ Returned
    /\ raw = [id |-> PyInt(7), proxyType |-> PyStr("SOCKS5"),
              connection |-> PyDict([socks5Port |-> PyInt(1080)]),
              bandwidth |-> PyDict([total |-> PyInt(100), used |-> PyInt(30)])]
    /\ normalized.ok.port = PyInt(1080)
    /\ normalized.ok.bandwidth_remaining = PyInt(70)
    /\ normalized.ok.bandwidth_unlimited = PyBool(FALSE)

StatusLowercaseOrUnknown ==
    Returned =>
        LET st == RawField(raw, "status")
        IN /\ IsStr(st) =>
                /\ normalized.ok.status = PyStr(lower(st.str))
                /\ upper(normalized.ok.status.str) = upper(st.str)
                /\ lower(normalized.ok.status.str) = normalized.ok.status.str
           /\ ~IsStr(st) => normalized.ok.status = PyStr("unknown")

\* A status in mixed case and a status that is no string have come out as
\* the claim says
MixedCaseStatusNormalized ==
    /\ Returned
    /\ RawField(raw, "status") = PyStr("PENDING_PAYMENT")
    /\ normalized.ok.status = PyStr("pending_payment")

----------------------------------------------------------------------------
(* Properties of the poll cycle *)

\* C1: when a client call of a poll cycle fails (ApiError, connection
\* failure or AuthError), the cycle is aborted, the published snapshot is
\* left exactly as it was, and the failure reaches the host as UpdateFailed.
ClientErrorAbortsCycle ==
    [][(client_error = NoError /\ client_error' # NoError) =>
          /\ pc' = "idle"
          /\ data' = data
          /\ last_update' = [kind |-> "UpdateFailed", cause |-> client_error'.cls]]_vars

\* A cycle failed with AuthError while a snapshot was published
AuthErrorAfterPublishedSnapshot ==
    /\ pc = "idle"
    /\ data # None
    /\ data.proxy_count > 0
    /\ client_error.cls = "ProxyCheapAuthError"
    /\ last_update.kind = "UpdateFailed"

\* C2: the snapshot changes only in the step that ends a cycle, and then to
\* the complete new snapshot: this cycle's balance and an entry for every
\* record of this cycle's response that has an identifier.
SnapshotPublishedWhole ==
    [][data' # data =>
          /\ pc = "normalize"
          /\ pc' = "idle"
          /\ data'.balance = Get(balance_data, "balance", PyInt(0))
          /\ data'.currency = Get(balance_data, "currency", PyStr("USD"))
          /\ data'.proxies = proxies
          /\ data'.proxy_count = Cardinality(DOMAIN proxies)
          /\ \A i \in 1..Len(proxies_data) :
                Truthy(ProxyId(proxies_data[i].dict)) =>
                    ProxyId(proxies_data[i].dict) \in DOMAIN data'.proxies]_vars

\* Mid-cycle, with a new balance fetched and part of the new records
\* normalized, the previous snapshot is still the published one
PreviousSnapshotPublishedMidCycle ==
    /\ pc = "normalize"
    /\ data # None
    /\ idx > 1
    /\ idx <= Len(proxies_data)
    /\ proxies # EmptyDict
    /\ proxies # data.proxies
    /\ Get(balance_data, "balance", PyInt(0)) # data.balance

\* The identifiers carried by the records of this cycle's response
IdentifiersOf(records) ==
    {Identifier(records[i].dict) : i \in 1..Len(records)} \ {None}

\* C13: the step that ends a successful cycle publishes a proxy map with one
\* entry for every raw record that carries an identifier (id, or proxy_id
\* when id is missing), stored under that identifier and holding the
\* normalization of such a record, and no other entry; a record with
\* neither field is passed over without ending the cycle.
SnapshotHasEveryIdentifiedRecord ==
    [][/\ (pc = "normalize" /\ pc' = "idle" /\ last_update'.kind = "success") =>
            /\ DOMAIN data'.proxies = IdentifiersOf(proxies_data)
            /\ \A k \in DOMAIN data'.proxies :
                  \E i \in 1..Len(proxies_data) :
                      /\ Identifier(proxies_data[i].dict) = k
                      /\ [ok |-> data'.proxies[k]] =
                            _normalize_proxy_data(proxy_names, proxies_data[i].dict)
       /\ (pc = "normalize" /\ idx <= Len(proxies_data)
              /\ Identifier(proxies_data[idx].dict) = None) =>
            /\ pc' = "normalize"
            /\ idx' = idx + 1
            /\ proxies' = proxies
            /\ last_update' = last_update]_vars

\* The identifiers the loop of lines 54-59 keeps from a response
KeptIdentifiers(records) ==
    {ProxyId(records[i].dict) :
        i \in {j \in 1..Len(records) : Truthy(ProxyId(records[j].dict))}}

\* C21: the step that ends a successful cycle replaces the snapshot
\* wholesale: the published proxy map holds exactly the identifiers kept
\* from this cycle's list-proxies response, each with the normalization of
\* a record of this response, and the balance of this cycle's balance
\* response; nothing of the earlier snapshot is carried over.
SnapshotReplacedWholesale ==
    [][(pc = "normalize" /\ pc' = "idle" /\ last_update'.kind = "success") =>
          /\ DOMAIN data'.proxies = KeptIdentifiers(proxies_data)
          /\ \A k \in DOMAIN data'.proxies :
                \E i \in 1..Len(proxies_data) :
                    /\ ProxyId(proxies_data[i].dict) = k
                    /\ [ok |-> data'.proxies[k]] =
                          _normalize_proxy_data(proxy_names, proxies_data[i].dict)
          /\ data'.proxy_count = Cardinality(KeptIdentifiers(proxies_data))
          /\ data'.balance = Get(balance_data, "balance", PyInt(0))
          /\ data'.currency = Get(balance_data, "currency", PyStr("USD"))]_vars

\* A cycle is about to publish a response that lacks a proxy of the
\* published snapshot and brings another one
ResponseLacksPublishedProxy ==
    /\ pc = "normalize"
    /\ LoopDone(idx, proxies_data)
    /\ data # None
    /\ PyInt(1) \in DOMAIN data.proxies
    /\ KeptIdentifiers(proxies_data) = {PyInt(3)}
    /\ DOMAIN proxies = {PyInt(3)}

\* The override configured for identifier k: under k, else under str(k)
ConfiguredOverride(names, k) ==
    IF k \in DOMAIN names THEN names[k]
    ELSE IF PyStr(ToStr(k)) \in DOMAIN names THEN names[PyStr(ToStr(k))]
    ELSE Absent

\* C24: in every published snapshot each entry of the proxy map agrees with
\* its key: the id field of the normalized record is the key, and when an
\* override is configured for the key the record's name is that override;
\* also for records identified by proxy_id.
SnapshotEntryMatchesKey ==
    data # None =>
        \A k \in DOMAIN data.proxies :
            /\ data.proxies[k].id = k
            /\ ConfiguredOverride(proxy_names, k) # Absent =>
                  data.proxies[k].name = ConfiguredOverride(proxy_names, k)

\* C18: after a poll cycle has failed with AuthError the coordinator does
\* not retry: no further poll cycle is started (and so no vendor call is made
\* with the same credentials).
NoCycleAfterAuthFailure ==
    [][(pc = "idle" /\ last_update.cause = "ProxyCheapAuthError") =>
          pc' = "idle"]_vars

----------------------------------------------------------------------------
(* Properties of the service handlers *)

\* C5: a write handler requests the refresh if and only if its client call
\* succeeded, and only after that call; when the call fails no refresh is
\* requested and the failure is raised to the caller.
WriteRefreshIffCallSucceeded ==
    /\ (w_refreshed \/ wpc = "request_refresh") => w_call.kind = "ok"
    /\ (wpc = "idle" /\ w_call.kind = "ok") =>
          (w_refreshed /\ w_result.kind = "ok")
    /\ (wpc = "idle" /\ w_call.kind = "raised") =>
          /\ ~w_refreshed
          /\ w_result = [kind |-> "HomeAssistantError", cause |-> w_call.exc.cls]

\* A write handler whose client call timed out has ended
WriteFailedWithoutRefresh ==
    /\ wpc = "idle"
    /\ w_call.kind = "raised"
    /\ w_call.exc.reason = "timeout"
    /\ ~w_refreshed
    /\ w_result.kind = "HomeAssistantError"

\* The error kind of the taxonomy that an exception of the client stands for
ErrorKind(exc) ==
    CASE exc.reason \in {"timeout", "client_error"} -> "ConnectionError"
      [] exc.cls = "ProxyCheapAuthError" -> "AuthError"
      [] OTHER -> "ApiError"

\* C19: when the client call of a write operation fails, the error that
\* reaches the caller keeps its kind: whatever failure of the client call
\* ends the handler with the same error is of the same kind (AuthError,
\* ConnectionError or ApiError) as the failure that happened.
WriteFailureKeepsKind ==
    (wpc = "idle" /\ w_call.kind = "raised") =>
        \A o \in HttpOutcomes :
            LET r == WriteCall(wop, o, PyDict(EmptyDict))
            IN ("raised" \in DOMAIN r
                  /\ AfterWriteCall(r).next = w_result.kind
                  /\ AfterWriteCall(r).cause = w_result.cause) =>
                   ErrorKind(r.raised) = ErrorKind(w_call.exc)

----------------------------------------------------------------------------
(* Properties of the API client *)

Replied == reply # NotRun
ReplyRaised == "raised" \in DOMAIN reply
ReplyReturned == "ok" \in DOMAIN reply

\* The error kind of the taxonomy that an HTTP exchange stands for
\* ("none": a response below 400 with a parsable body)
TaxonomyKind(outcome) ==
    CASE outcome.kind \in {"timeout", "client_error"} -> "ConnectionError"
      [] outcome.status \in {401, 403} -> "AuthError"
      [] outcome.status >= 400 \/ ~outcome.parsable -> "ApiError"
      [] OTHER -> "none"

\* The operations that hand the response on to their caller
ResponseOps == ClientOps \ {"validate_credentials"}

\* C14: every client operation maps the HTTP outcome as follows: 401 or 403
\* fails with AuthError; any other status >= 400 fails with ApiError (not
\* AuthError) carrying the status code and the body; a status below 400
\* with an unparsable body fails with ApiError; a status below 400 with a
\* parsable body returns the parsed body and raises nothing.
HttpOutcomeMappedToErrorKind ==
    (Replied /\ call.op \in ResponseOps /\ call.outcome.kind = "response") =>
        LET status == call.outcome.status
        IN /\ status \in {401, 403} =>
                (ReplyRaised /\ reply.raised.cls = "ProxyCheapAuthError")
           /\ (status >= 400 /\ status \notin {401, 403}) =>
                /\ ReplyRaised
                /\ reply.raised.cls = "ProxyCheapApiError"
                /\ reply.raised.status = status
                /\ reply.raised.text = call.outcome.text
           /\ (status < 400 /\ ~call.outcome.parsable) =>
                (ReplyRaised /\ reply.raised.cls = "ProxyCheapApiError")
           /\ (status < 400 /\ call.outcome.parsable) =>
                /\ ReplyReturned
                /\ call.op # "get_proxies" => reply.ok = call.body

\* An operation has met HTTP 403 and raised AuthError
ForbiddenRaisedAuthError ==
    /\ ReplyRaised
    /\ call.op = "extend_proxy"
    /\ call.outcome.status = 403
    /\ reply.raised.cls = "ProxyCheapAuthError"

\* C15: a call that times out or hits a network failure fails with an error
\* kind that no HTTP response (status >= 400, unparsable body, 401/403)
\* fails with: the class of the exception tells a connection failure apart.
ConnectionFailureHasItsOwnKind ==
    (ReplyRaised /\ call.outcome.kind \in {"timeout", "client_error"}) =>
        \A o \in ClientOutcomes :
            LET r == _request(o, call.body)
            IN ("raised" \in DOMAIN r /\ r.raised.cls = reply.raised.cls) =>
                   TaxonomyKind(o) = "ConnectionError"

\* C16: validate_credentials never raises; it returns true exactly when
\* get balance succeeds, and false when it fails with AuthError or with any
\* other ApiError (timeout and network failure included).
ValidateCredentialsIsBoolean ==
    (Replied /\ call.op = "validate_credentials") =>
        /\ ReplyReturned
        /\ reply.ok = PyBool(TaxonomyKind(call.outcome) = "none")

\* validate_credentials has returned false on a timeout
ValidateReturnedFalseOnTimeout ==
    /\ call.op = "validate_credentials"
    /\ call.outcome.kind = "timeout"
    /\ ReplyReturned
    /\ reply.ok = PyBool(FALSE)

\* C17: list proxies returns the bare list as it is, the value under
\* "proxies" of an object that has that key, the value under "data" of an
\* object that has that key; it never returns the wrapper object.
ListProxiesUnwrapsResponse ==
    (Replied /\ call.op = "get_proxies" /\ TaxonomyKind(call.outcome) = "none") =>
        LET body == call.body
        IN /\ ReplyReturned
           /\ IsList(body) => reply.ok = body
           /\ (IsDict(body) /\ "proxies" \in DOMAIN body.dict) =>
                 reply.ok = body.dict["proxies"]
           /\ (IsDict(body) /\ "data" \in DOMAIN body.dict
                 /\ "proxies" \notin DOMAIN body.dict) =>
                 reply.ok = body.dict["data"]
           /\ (IsDict(body) /\ DOMAIN body.dict \cap {"proxies", "data"} # {}) =>
                 reply.ok # body

\* list proxies has returned the inner list of {"data": [...]}
DataWrapperUnwrapped ==
    /\ call.op = "get_proxies"
    /\ call.body = PyDict([data |-> OneProxyList])
    /\ ReplyReturned
    /\ reply.ok = OneProxyList

----------------------------------------------------------------------------
(* Properties of the config flow *)

\* C27: in the setup step the error shown tells why the credential check
\* failed: "invalid_auth" for an authentication failure (HTTP 401/403),
\* "cannot_connect" for any other failure of the client (timeout, network
\* error, other HTTP >= 400, unparsable body); the entry is created exactly
\* when the check succeeded.
SetupErrorTellsWhy ==
    (Replied /\ call.op = "async_step_user" /\ call.submitted /\ ~call.configured) =>
        LET kind == TaxonomyKind(call.outcome)
        IN /\ kind = "AuthError" =>
                reply.ok = [type |-> "form", errors |-> "invalid_auth"]
           /\ kind \in {"ConnectionError", "ApiError"} =>
                reply.ok = [type |-> "form", errors |-> "cannot_connect"]
           /\ (reply.ok.type = "create_entry") <=> (kind = "none")

----------------------------------------------------------------------------
(* Properties of the options update listener *)

\* C25: when options are updated the listener changes the enabled/disabled
\* state of per-proxy entities only: the registry state of the account
\* entities (balance, proxy_count) after it is what it was before, whatever
\* the set of enabled sensors.
AccountEntitiesLeftAlone ==
    (Replied /\ call.op = "_async_update_listener") =>
        \A u \in AccountUniqueIds :
            reply.ok.registry[u] = call.registry[u]

----------------------------------------------------------------------------
(* Properties of the entity platforms *)

\* C26: over any sequence of published snapshots, the entities of a proxy
\* identifier are requested at most once by each platform, the request made
\* at platform setup included.
EntitiesRequestedAtMostOnce ==
    \A k \in PlatformProxyIds :
        /\ sensor_added[k] <= 1
        /\ binary_added[k] <= 1

====
